---- MODULE Spec2Model ----
(***************************************************************************)
(* The Lottery contract (src/contracts/Lottery.sol) as a state machine.    *)
(*                                                                         *)
(* One action per entry point: enterLottery, checkUpkeep, performUpkeep    *)
(* and the coordinator's delivery of random words, which ends in           *)
(* Lottery.fulfillRandomWords.  Each call runs to completion; a call that  *)
(* reverts commits nothing but its receipt (lastCall).  The pot is         *)
(* address(this).balance: it grows by msg.value in enterLottery, the only  *)
(* payable function, and is emptied by the transfer to the winner.         *)
(*                                                                         *)
(* The VRF coordinator is not part of src/.  Its table of outstanding      *)
(* requests, which plays the part of the specification's pendingRequestId  *)
(* (the Lottery stores no identifier), follows the specification's         *)
(* RandomnessOracle and what the unit tests observe of the coordinator:    *)
(* identifiers greater than 0, and "nonexistent request" for an identifier *)
(* it does not hold.                                                       *)
(***************************************************************************)
EXTENDS Naturals, Integers, Sequences, FiniteSets, TLC

\* ------------------------------------------------------------------ bounds
MaxPlayers == 2
MaxPayment == 2
MaxFee == 1
MaxInterval == 1
MaxTime == 3
MaxRequests == 2
MaxWord == 3

\* --------------------------------------------------------------- constants
\* enum LotteryState { OPEN, CALCULATING }
OPEN == 0
CALCULATING == 1
\* uint16 private constant NUM_WORDS = 1;
NUM_WORDS == 1

Addresses == {"a1", "a2"}
\* address(0): the value of s_recentWinner before the first settlement
ZeroAddress == "0x0"

Payments == 0..MaxPayment
RequestIds == 0..(MaxRequests + 1)
RandomWords == [1..NUM_WORDS -> 0..MaxWord]

\* revert reasons
NoError == "none"
NotEnoughETHEntered == "Lottery__NotEnoughETHEntered"
TransferFailed == "Lottery__TransferFailed"
NotOpen == "Lottery__NotOpen"
UpkeepNotNeeded == "Lottery__UpkeepNotNeeded"
NonexistentRequest == "nonexistent request"
Panic == "Panic"

VARIABLES
    i_entranceFee,     \* uint256 immutable
    i_interval,        \* uint256, set once by the constructor
    s_players,         \* address payable[]
    s_recentWinner,    \* address
    s_lotteryState,    \* LotteryState
    s_lastTimestamp,   \* uint256
    balance,           \* address(this).balance
    blockTimestamp,    \* block.timestamp
    s_nextRequestId,   \* coordinator: the identifier the next request gets
    s_requests,        \* coordinator: identifiers requested and not yet fulfilled
    lastCall,          \* receipt of the latest transaction or call
    entrants,          \* history: senders of the successful enters since the last settlement
    paidIn,            \* history: sum of the payments of those enters
    playersAtDraw,     \* history: s_players when the pending draw was requested
    eventLog,          \* history: the events emitted since the last WinnerPicked
    fulfilled,         \* history: identifiers whose delivery has settled
    lastRequestId,     \* history: identifiers returned to the latest successful performUpkeep
    calledRequestId,   \* history: the identifier of the delivery lastCall is the receipt of
    sawReady,          \* upkeep triggers whose latest checkUpkeep in this round returned true
    upkeepResult       \* upkeep triggers: outcome of the performUpkeep made on that observation

vars == <<i_entranceFee, i_interval, s_players, s_recentWinner, s_lotteryState,
          s_lastTimestamp, balance, blockTimestamp, s_nextRequestId, s_requests,
          lastCall, entrants, paidIn, playersAtDraw, eventLog, fulfilled,
          lastRequestId, calledRequestId, sawReady, upkeepResult>>

\* the contract's storage and balance
lotteryVars == <<i_entranceFee, i_interval, s_players, s_recentWinner,
                 s_lotteryState, s_lastTimestamp, balance>>
coordinatorVars == <<s_nextRequestId, s_requests>>
historyVars == <<entrants, paidIn, playersAtDraw>>
monitorVars == <<eventLog, fulfilled, lastRequestId, calledRequestId>>
keeperVars == <<sawReady, upkeepResult>>

\* the two upkeep triggers that poll checkUpkeep and call performUpkeep
Keepers == {"k1", "k2"}
NotCalled == "not called"

\* ---------------------------------------------------------------- receipts
NoEvents == <<>>
NoTransfers == <<>>
NoArgs == <<>>

Event(name, addr, id) == [name |-> name, addr |-> addr, id |-> id]
LotteryEnter(player) == Event("LotteryEnter", player, 0)
RequestLotteryWinner(requestId) == Event("RequestLotteryWinner", ZeroAddress, requestId)
\* mutant: the event carries the first player in place of the winner
WinnerPicked_first(winner) == Event("WinnerPicked", s_players[1], 0)

WinnerPicked(winner) == Event("WinnerPicked", winner, 0)

Receipt(op, err, errArgs, events, transfers, ret) ==
    [op |-> op, err |-> err, errArgs |-> errArgs, events |-> events,
     transfers |-> transfers, ret |-> ret]

\* a reverted transaction: no storage write, no balance change, no event
Reverted(op, err, errArgs) ==
    /\ lastCall' = Receipt(op, err, errArgs, NoEvents, NoTransfers, FALSE)
    /\ UNCHANGED <<lotteryVars, coordinatorVars, historyVars, blockTimestamp>>

\* ------------------------------------------------------------- constructor
Init ==
    /\ i_entranceFee \in 0..MaxFee
    /\ i_interval \in 0..MaxInterval
    /\ s_players = <<>>
    /\ s_recentWinner = ZeroAddress
    /\ s_lotteryState = OPEN
    /\ blockTimestamp = 0
    /\ s_lastTimestamp = blockTimestamp
    /\ balance = 0
    /\ s_nextRequestId = 1
    /\ s_requests = {}
    /\ lastCall = Receipt("constructor", NoError, NoArgs, NoEvents, NoTransfers, FALSE)
    /\ entrants = <<>>
    /\ paidIn = 0
    /\ playersAtDraw = <<>>
    /\ eventLog = <<>>
    /\ fulfilled = {}
    /\ lastRequestId = {}
    /\ calledRequestId = {}
    /\ sawReady = {}
    /\ upkeepResult = [k \in Keepers |-> NotCalled]

\* ------------------------------------------------------------ enterLottery
\* mutant: the state check ahead of the payment check
enterLotteryRevert_stateFirst(value) ==
    IF s_lotteryState # OPEN THEN NotOpen
    ELSE IF value < i_entranceFee THEN NotEnoughETHEntered
    ELSE NoError

\* mutant: the state check left out
enterLotteryRevert_noStateCheck(value) ==
    IF value < i_entranceFee THEN NotEnoughETHEntered
    ELSE NoError

\* mutant: the payment not compared with the entrance fee
enterLotteryRevert_noFeeCheck(value) ==
    IF s_lotteryState # OPEN THEN NotOpen
    ELSE NoError

enterLotteryRevert(value) ==
    IF value < i_entranceFee THEN NotEnoughETHEntered
    ELSE IF s_lotteryState # OPEN THEN NotOpen
    ELSE NoError

\* mutant: an address already entered is not recorded again
playersPush_dedupe(sender) ==
    IF \E i \in 1..Len(s_players) : s_players[i] = sender
    THEN s_players
    ELSE Append(s_players, sender)

\* s_players.push(payable(msg.sender))
playersPush(sender) == Append(s_players, sender)

enterLottery(sender, value) ==
    LET err == enterLotteryRevert(value) IN
    IF err # NoError
    THEN Reverted("enterLottery", err, NoArgs)
    ELSE /\ s_players' = playersPush(sender)
         /\ balance' = balance + value
         /\ lastCall' = Receipt("enterLottery", NoError, NoArgs,
                                <<LotteryEnter(sender)>>, NoTransfers, FALSE)
         /\ entrants' = Append(entrants, sender)
         /\ paidIn' = paidIn + value
         /\ UNCHANGED <<i_entranceFee, i_interval, s_recentWinner, s_lotteryState,
                        s_lastTimestamp, blockTimestamp, coordinatorVars,
                        playersAtDraw>>

\* ------------------------------------------------------------- checkUpkeep
\* block.timestamp - s_lastTimestamp is a checked uint256 subtraction
checkUpkeepPanics == blockTimestamp < s_lastTimestamp

\* mutant: >= in place of >
timePassed_atLeast == (blockTimestamp - s_lastTimestamp) >= i_interval

isOpen == OPEN = s_lotteryState
timePassed == (blockTimestamp - s_lastTimestamp) > i_interval
hasPlayers == Len(s_players) > 0
hasBalance == balance > 0

\* mutant: the isOpen conjunct left out
checkUpkeep_noOpenCheck == timePassed /\ hasPlayers /\ hasBalance

checkUpkeep == isOpen /\ timePassed /\ hasPlayers /\ hasBalance

checkUpkeepCall ==
    IF checkUpkeepPanics
    THEN Reverted("checkUpkeep", Panic, NoArgs)
    ELSE /\ lastCall' = Receipt("checkUpkeep", NoError, NoArgs, NoEvents,
                                NoTransfers, checkUpkeep)
         /\ UNCHANGED <<lotteryVars, coordinatorVars, historyVars, blockTimestamp>>

\* ----------------------------------------------------------- performUpkeep
\* mutant: the identifier of the previous request handed out again
requestRandomWords_reused ==
    IF s_nextRequestId > 1 THEN s_nextRequestId - 1 ELSE s_nextRequestId

\* coordinator: requestRandomWords returns a fresh identifier, starting at 1
requestRandomWords == s_nextRequestId

\* mutant: the gate not evaluated at all
performUpkeepRevert_noGate == NoError

\* mutant: the gate reduced to the player count
performUpkeepRevert_playersOnly ==
    IF checkUpkeepPanics THEN Panic
    ELSE IF ~hasPlayers THEN UpkeepNotNeeded
    ELSE NoError

\* mutant: the negation of the gate lost
performUpkeepRevert_inverted ==
    IF checkUpkeepPanics THEN Panic
    ELSE IF checkUpkeep THEN UpkeepNotNeeded
    ELSE NoError

performUpkeepRevert ==
    IF checkUpkeepPanics THEN Panic
    ELSE IF ~checkUpkeep THEN UpkeepNotNeeded
    ELSE NoError

performUpkeep ==
    LET err == performUpkeepRevert IN
    IF err = UpkeepNotNeeded
    THEN Reverted("performUpkeep", err,
                  <<balance, Len(s_players), s_lotteryState>>)
    ELSE IF err # NoError
    THEN Reverted("performUpkeep", err, NoArgs)
    ELSE LET requestId == requestRandomWords IN
         /\ s_lotteryState' = CALCULATING
         /\ s_requests' = s_requests \cup {requestId}
         /\ s_nextRequestId' = s_nextRequestId + 1
         /\ lastCall' = Receipt("performUpkeep", NoError, NoArgs,
                                <<RequestLotteryWinner(requestId)>>, NoTransfers, FALSE)
         /\ playersAtDraw' = s_players
         /\ UNCHANGED <<i_entranceFee, i_interval, s_players, s_recentWinner,
                        s_lastTimestamp, balance, blockTimestamp, entrants, paidIn>>

\* ------------------------------------------------------ fulfillRandomWords
\* mutant: the index off by one
indexOfWinner_offByOne(randomWords) == (randomWords[1] + 1) % Len(s_players)

indexOfWinner(randomWords) == randomWords[1] % Len(s_players)

recentWinner(randomWords) == s_players[indexOfWinner(randomWords) + 1]

\* recentWinner.call{value: address(this).balance}(""): the recipient decides
\* whether the call succeeds; a call it makes back into the Lottery finds the
\* state CALCULATING and reverts in enterLottery and in performUpkeep
payoutValue == balance

\* mutant: the result of the transfer not checked
fulfillRandomWordsRevert_unchecked(randomWords, success) ==
    IF Len(s_players) = 0 THEN Panic
    ELSE NoError

fulfillRandomWordsRevert(randomWords, success) ==
    IF Len(s_players) = 0 THEN Panic
    ELSE IF ~success THEN TransferFailed
    ELSE NoError

\* mutant: the state not set back to OPEN
settlement_keepState(randomWords) ==
    [s_recentWinner |-> recentWinner(randomWords),
     s_lotteryState |-> s_lotteryState,
     s_players |-> <<>>,
     s_lastTimestamp |-> blockTimestamp]

\* mutant: the players array not reset
settlement_keepPlayers(randomWords) ==
    [s_recentWinner |-> recentWinner(randomWords),
     s_lotteryState |-> OPEN,
     s_players |-> s_players,
     s_lastTimestamp |-> blockTimestamp]

\* mutant: the time of the next eligible draw stored in place of the current time
settlement_nextDue(randomWords) ==
    [s_recentWinner |-> recentWinner(randomWords),
     s_lotteryState |-> OPEN,
     s_players |-> <<>>,
     s_lastTimestamp |-> blockTimestamp + i_interval]

\* the storage written by a settlement that does not revert
settlement(randomWords) ==
    [s_recentWinner |-> recentWinner(randomWords),
     s_lotteryState |-> OPEN,
     s_players |-> <<>>,
     s_lastTimestamp |-> blockTimestamp]

\* mutant: the failed transfer reported by a return, which keeps the write of
\* s_recentWinner made ahead of the transfer
failedTransfer_returns(randomWords) ==
    /\ s_recentWinner' = recentWinner(randomWords)
    /\ lastCall' = Receipt("fulfillRandomWords", TransferFailed, NoArgs, NoEvents,
                           NoTransfers, FALSE)
    /\ UNCHANGED <<i_entranceFee, i_interval, s_players, s_lotteryState,
                   s_lastTimestamp, balance, coordinatorVars, historyVars,
                   blockTimestamp>>

\* if (!success) revert Lottery__TransferFailed(): the write of s_recentWinner
\* made ahead of the transfer is rolled back with everything else
failedTransfer(randomWords) ==
    Reverted("fulfillRandomWords", TransferFailed, NoArgs)

\* Lottery.fulfillRandomWords, entered through rawFulfillRandomWords by the
\* coordinator, which drops the request once the callback has returned.  The
\* requestId parameter is not read by the Lottery.
fulfillRandomWords(requestId, randomWords, success) ==
    LET err == fulfillRandomWordsRevert(randomWords, success) IN
    IF err = TransferFailed
    THEN failedTransfer(randomWords)
    ELSE IF err # NoError
    THEN Reverted("fulfillRandomWords", err, NoArgs)
    ELSE LET new == settlement(randomWords) IN
         /\ s_recentWinner' = new.s_recentWinner
         /\ s_lotteryState' = new.s_lotteryState
         /\ s_players' = new.s_players
         /\ s_lastTimestamp' = new.s_lastTimestamp
         /\ balance' = balance - payoutValue
         /\ s_requests' = s_requests \ {requestId}
         /\ lastCall' = Receipt("fulfillRandomWords", NoError, NoArgs,
                                <<WinnerPicked(recentWinner(randomWords))>>,
                                <<[to |-> recentWinner(randomWords), value |-> payoutValue]>>,
                                FALSE)
         /\ entrants' = <<>>
         /\ paidIn' = 0
         /\ playersAtDraw' = <<>>
         /\ UNCHANGED <<i_entranceFee, i_interval, blockTimestamp, s_nextRequestId>>

\* coordinator: only a request it holds is delivered
requestExists(requestId) == requestId \in s_requests

\* coordinator: fulfillRandomWords(requestId, consumer) rejects an identifier it
\* does not hold, and otherwise calls the Lottery back with NUM_WORDS random
\* words; the transfer to the winner succeeds or fails as the winner decides
coordinatorFulfillRandomWords(requestId) ==
    IF ~requestExists(requestId)
    THEN Reverted("fulfillRandomWords", NonexistentRequest, NoArgs)
    ELSE \E randomWords \in RandomWords, success \in BOOLEAN :
             fulfillRandomWords(requestId, randomWords, success)

\* -------------------------------------------------------------------- time
\* a later block: block.timestamp never decreases
Tick ==
    /\ blockTimestamp < MaxTime
    /\ blockTimestamp' = blockTimestamp + 1
    /\ lastCall' = Receipt("none", NoError, NoArgs, NoEvents, NoTransfers, FALSE)
    /\ UNCHANGED <<lotteryVars, coordinatorVars, historyVars>>

\* ----------------------------------------------------------- specification
Succeeded(op) == lastCall'.op = op /\ lastCall'.err = NoError

Emitted(name) ==
    \E i \in DOMAIN lastCall'.events : lastCall'.events[i].name = name

\* the history kept of a call, read off its receipt; delivered is the set holding
\* the identifier of a delivery, and is empty for every other call
Monitor(delivered) ==
    /\ eventLog' = IF Emitted("WinnerPicked")
                   THEN <<>>
                   ELSE eventLog \o lastCall'.events
    /\ fulfilled' = IF Succeeded("fulfillRandomWords")
                    THEN fulfilled \cup delivered
                    ELSE fulfilled
    /\ lastRequestId' = IF Succeeded("performUpkeep")
                        THEN {requestRandomWords}
                        ELSE lastRequestId
    /\ calledRequestId' = delivered

Enter ==
    \E sender \in Addresses, value \in Payments :
        /\ Len(s_players) < MaxPlayers
        /\ enterLottery(sender, value)
        /\ Monitor({})
        /\ UNCHANGED keeperVars

CheckUpkeep ==
    /\ checkUpkeepCall
    /\ Monitor({})
    /\ UNCHANGED keeperVars

PerformUpkeep ==
    /\ s_nextRequestId <= MaxRequests \/ performUpkeepRevert # NoError
    /\ performUpkeep
    /\ Monitor({})
    /\ UNCHANGED keeperVars

Fulfill ==
    \E requestId \in RequestIds :
        /\ coordinatorFulfillRandomWords(requestId)
        /\ Monitor({requestId})
        /\ UNCHANGED keeperVars

Advance ==
    /\ Tick
    /\ Monitor({})
    /\ UNCHANGED keeperVars

Next == Enter \/ CheckUpkeep \/ PerformUpkeep \/ Fulfill \/ Advance

Spec == Init /\ [][Next]_vars

\* ------------------------------------------------- two upkeep triggers
\* Each trigger polls checkUpkeep and calls performUpkeep only on an observation
\* of true; the observations and outcomes are those of the round in progress
\* and are forgotten when a settlement opens the next round.
KeeperCheck(k) ==
    /\ checkUpkeepCall
    /\ Monitor({})
    /\ sawReady' = IF lastCall'.ret THEN sawReady \cup {k} ELSE sawReady \ {k}
    /\ UNCHANGED upkeepResult

KeeperPerform(k) ==
    /\ k \in sawReady
    /\ s_nextRequestId <= MaxRequests \/ performUpkeepRevert # NoError
    /\ performUpkeep
    /\ Monitor({})
    /\ sawReady' = sawReady \ {k}
    /\ upkeepResult' = [upkeepResult EXCEPT ![k] = lastCall'.err]

KeepersCheck == \E k \in Keepers : KeeperCheck(k)

KeepersPerform == \E k \in Keepers : KeeperPerform(k)

KeepersFulfill ==
    \E requestId \in RequestIds :
        /\ coordinatorFulfillRandomWords(requestId)
        /\ Monitor({requestId})
        /\ IF Succeeded("fulfillRandomWords")
           THEN /\ sawReady' = {}
                /\ upkeepResult' = [k \in Keepers |-> NotCalled]
           ELSE UNCHANGED keeperVars

NextKeepers == Enter \/ KeepersCheck \/ KeepersPerform \/ KeepersFulfill \/ Advance

SpecKeepers == Init /\ [][NextKeepers]_vars

\* ----------------------------------------------- a delivering coordinator
\* the delivery of a pending request whose transfer to the winner succeeds
Settle ==
    \E requestId \in RequestIds, randomWords \in RandomWords :
        /\ requestExists(requestId)
        /\ fulfillRandomWords(requestId, randomWords, TRUE)
        /\ Monitor({requestId})
        /\ UNCHANGED keeperVars

\* the coordinator eventually delivers each accepted request, and the transfer
\* to the winner eventually succeeds
LiveSpec == Init /\ [][Next]_vars /\ WF_vars(Settle)


\* ------------------------------------------------------------------ claims
\* the request the lottery is waiting on: the coordinator's outstanding request
NoPendingRequest == s_requests = {}

(* C1: enterLottery with msg.value < i_entranceFee reverts with
   Lottery__NotEnoughETHEntered in every state, OPEN or CALCULATING: the payment
   check comes before the state check. *)
C1_UnderpaidEnterReverts ==
    [][\A sender \in Addresses, value \in Payments :
          (value < i_entranceFee /\ enterLottery(sender, value))
              => /\ lastCall'.op = "enterLottery"
                 /\ lastCall'.err = NotEnoughETHEntered]_vars

C1_Witness ==
    /\ lastCall.op = "enterLottery"
    /\ lastCall.err = NotEnoughETHEntered
    /\ s_lotteryState = CALCULATING

(* C2: enterLottery with msg.value >= i_entranceFee while CALCULATING reverts with
   Lottery__NotOpen, and every reverted enterLottery leaves the players, the
   balance, the state, the recent winner, the last timestamp and the pending
   request unchanged and emits no event. *)
C2_FailedEnterChangesNothing ==
    [][\A sender \in Addresses, value \in Payments :
          enterLottery(sender, value)
              => /\ (value >= i_entranceFee /\ s_lotteryState = CALCULATING)
                        => lastCall'.err = NotOpen
                 /\ lastCall'.err \in {NotEnoughETHEntered, NotOpen}
                        => /\ UNCHANGED <<s_players, balance, s_lotteryState,
                                          s_recentWinner, s_lastTimestamp, s_requests>>
                           /\ lastCall'.events = NoEvents]_vars

C2_Witness ==
    /\ lastCall.op = "enterLottery"
    /\ lastCall.err = NotOpen
    /\ s_lotteryState = CALCULATING
    /\ ~NoPendingRequest

(* C3: s_players is exactly the sequence of the senders of the successful
   enterLottery calls since the last settlement (or the construction), in call
   order and one slot per call, and the balance is the sum of their payments. *)
C3_PlayersAndPotFollowEnters ==
    /\ s_players = entrants
    /\ balance = paidIn

C3_Witness ==
    /\ lastCall.op = "enterLottery"
    /\ lastCall.err = NoError
    /\ Len(s_players) = 2
    /\ s_players[1] = s_players[2]
    /\ balance > 2 * i_entranceFee
    /\ s_recentWinner # ZeroAddress

(* C4: in every reachable state checkUpkeep evaluates without underflow and is
   true exactly when the state is OPEN, block.timestamp - s_lastTimestamp >
   i_interval, there is a player and the balance is positive; a checkUpkeep call
   returns that value. *)
C4_CheckUpkeepIff ==
    LET expected == /\ s_lotteryState = OPEN
                    /\ blockTimestamp - s_lastTimestamp > i_interval
                    /\ s_players # <<>>
                    /\ balance > 0
    IN  /\ ~checkUpkeepPanics
        /\ checkUpkeep <=> expected
        /\ s_players = <<>> => ~checkUpkeep
        /\ s_lotteryState = CALCULATING => ~checkUpkeep
        /\ lastCall.op = "checkUpkeep"
               => lastCall.err = NoError /\ lastCall.ret = expected

C4_Witness ==
    /\ lastCall.op = "checkUpkeep"
    /\ lastCall.ret = TRUE

(* C5: performUpkeep called while checkUpkeep is false reverts with
   Lottery__UpkeepNotNeeded(balance, number of players, state), requests no
   random words, emits no event and leaves the lottery unchanged. *)
C5_UpkeepNotNeededChangesNothing ==
    [][(performUpkeep /\ ~checkUpkeep)
          => /\ lastCall'.op = "performUpkeep"
             /\ lastCall'.err = UpkeepNotNeeded
             /\ lastCall'.errArgs = <<balance, Len(s_players), s_lotteryState>>
             /\ lastCall'.events = NoEvents
             /\ UNCHANGED <<lotteryVars, coordinatorVars>>]_vars

C5_Witness ==
    /\ lastCall.op = "performUpkeep"
    /\ lastCall.err = UpkeepNotNeeded
    /\ lastCall.errArgs = <<2, 2, CALCULATING>>

(* C6: performUpkeep called while checkUpkeep is true succeeds, sets the state to
   CALCULATING, issues exactly one randomness request, whose identifier (the one
   the coordinator returned) becomes the pending one, and leaves the players, the
   balance, the recent winner and the last timestamp unchanged. *)
C6_PerformUpkeepRequestsDraw ==
    [][(performUpkeep /\ checkUpkeep)
          => /\ lastCall'.err = NoError
             /\ s_lotteryState' = CALCULATING
             /\ requestRandomWords \notin s_requests
             /\ s_requests' = {requestRandomWords}
             /\ s_nextRequestId' = s_nextRequestId + 1
             /\ lastCall'.events = <<RequestLotteryWinner(requestRandomWords)>>
             /\ UNCHANGED <<s_players, balance, s_recentWinner, s_lastTimestamp>>]_vars

C6_Witness ==
    /\ lastCall.op = "performUpkeep"
    /\ lastCall.err = NoError
    /\ s_lotteryState = CALCULATING
    /\ s_requests = {2}

(* C7: a delivery of random words for an identifier other than the pending one
   fails with "nonexistent request" and changes nothing; this covers every
   delivery made while the state is OPEN, when no request is pending. *)
C7_UnknownRequestRejected ==
    [][\A requestId \in RequestIds :
          (/\ lastCall'.op = "fulfillRandomWords"
           /\ (requestId \notin s_requests \/ s_lotteryState = OPEN)
           /\ coordinatorFulfillRandomWords(requestId))
              => /\ lastCall'.err = NonexistentRequest
                 /\ lastCall'.events = NoEvents
                 /\ lastCall'.transfers = NoTransfers
                 /\ UNCHANGED <<lotteryVars, coordinatorVars>>]_vars

C7_Witness ==
    /\ lastCall.op = "fulfillRandomWords"
    /\ lastCall.err = NonexistentRequest
    /\ s_lotteryState = CALCULATING
    /\ s_requests = {2}

(* C8: a successful fulfillRandomWords picks s_players[randomWords[0] %
   s_players.length] on the players as they stood when the draw was requested,
   and transfers the whole balance to that winner and nothing to anyone else. *)
C8_WinnerIsIndexedAndPaidThePot ==
    [][\A requestId \in RequestIds, randomWords \in RandomWords, success \in BOOLEAN :
          (/\ lastCall'.op = "fulfillRandomWords"
           /\ lastCall'.err = NoError
           /\ fulfillRandomWords(requestId, randomWords, success))
              => LET winner == playersAtDraw[(randomWords[1] % Len(playersAtDraw)) + 1]
                 IN  /\ s_players = playersAtDraw
                     /\ lastCall'.transfers = <<[to |-> winner, value |-> balance]>>
                     /\ balance = paidIn
                     /\ lastCall'.events = <<WinnerPicked(winner)>>]_vars

C8_Witness ==
    /\ lastCall.op = "fulfillRandomWords"
    /\ lastCall.err = NoError
    /\ lastCall.transfers = <<[to |-> "a2", value |-> 3]>>

(* C9: after every successful fulfillRandomWords s_recentWinner is the selected
   winner, s_players is empty, the balance is 0, s_lastTimestamp is the time of
   the call, the state is OPEN and no request is pending. *)
C9_SettlementResets ==
    [][\A requestId \in RequestIds, randomWords \in RandomWords, success \in BOOLEAN :
          (/\ lastCall'.op = "fulfillRandomWords"
           /\ lastCall'.err = NoError
           /\ fulfillRandomWords(requestId, randomWords, success))
              => /\ s_recentWinner' = s_players[(randomWords[1] % Len(s_players)) + 1]
                 /\ s_players' = <<>>
                 /\ balance' = 0
                 /\ s_lastTimestamp' = blockTimestamp
                 /\ s_lotteryState' = OPEN
                 /\ s_requests' = {}]_vars

C9_Witness ==
    /\ lastCall.op = "fulfillRandomWords"
    /\ lastCall.err = NoError
    /\ s_lastTimestamp = blockTimestamp
    /\ s_lastTimestamp = MaxTime
    /\ s_recentWinner = "a1"
    /\ s_players = <<>>

(* C10: when the transfer to the selected winner fails, fulfillRandomWords reverts
   with Lottery__TransferFailed and commits nothing: the state stays CALCULATING,
   the balance, the players and the pending request are kept, s_recentWinner and
   s_lastTimestamp keep their values, and no WinnerPicked is emitted. *)
C10_FailedPayoutCommitsNothing ==
    [][\A requestId \in RequestIds, randomWords \in RandomWords :
          (/\ lastCall'.op = "fulfillRandomWords"
           /\ requestId \in s_requests
           /\ fulfillRandomWords(requestId, randomWords, FALSE))
              => /\ lastCall'.err = TransferFailed
                 /\ lastCall'.events = NoEvents
                 /\ lastCall'.transfers = NoTransfers
                 /\ s_lotteryState' = CALCULATING
                 /\ UNCHANGED <<lotteryVars, coordinatorVars>>]_vars

C10_Witness ==
    /\ lastCall.op = "fulfillRandomWords"
    /\ lastCall.err = TransferFailed
    /\ s_lotteryState = CALCULATING
    /\ s_requests = {2}
    /\ s_recentWinner = "a1"
    /\ s_players = <<"a2", "a2">>


(* C11: a request identifier is consumed by one successful delivery: the delivery
   that settles is for an identifier not settled before, and every later
   delivery for a settled identifier fails with "nonexistent request" and
   changes nothing, whether the lottery is then OPEN or CALCULATING on a newer
   request. *)
C11_SettledRequestIsConsumed ==
    [][\A requestId \in RequestIds :
          (/\ lastCall'.op = "fulfillRandomWords"
           /\ coordinatorFulfillRandomWords(requestId))
              => /\ lastCall'.err = NoError => requestId \notin fulfilled
                 /\ requestId \in fulfilled
                        => /\ lastCall'.err = NonexistentRequest
                           /\ lastCall'.events = NoEvents
                           /\ lastCall'.transfers = NoTransfers
                           /\ UNCHANGED <<lotteryVars, coordinatorVars>>]_vars

C11_Witness ==
    /\ lastCall.op = "fulfillRandomWords"
    /\ lastCall.err = NonexistentRequest
    /\ calledRequestId = {1}
    /\ fulfilled = {1}
    /\ s_lotteryState = CALCULATING
    /\ s_requests = {2}

(* C12: whenever the state is CALCULATING, and whenever a request is outstanding,
   s_players is non-empty, so the winner selection never divides by zero (no
   call ends in a Panic) and its index is within the players. *)
C12_PlayersWhileCalculating ==
    /\ s_lotteryState = CALCULATING => Len(s_players) > 0
    /\ s_requests # {} => Len(s_players) > 0
    /\ lastCall.err # Panic
    /\ s_requests # {}
           => \A randomWords \in RandomWords :
                  (randomWords[1] % Len(s_players)) + 1 \in DOMAIN s_players

C12_Witness ==
    /\ lastCall.op = "fulfillRandomWords"
    /\ lastCall.err = TransferFailed
    /\ calledRequestId = {1}
    /\ s_lotteryState = CALCULATING
    /\ Len(s_players) = 1

(* C13: at most one randomness request is outstanding at any time, and a
   performUpkeep made while the state is CALCULATING reverts with
   Lottery__UpkeepNotNeeded and requests nothing. *)
C13_OneOutstandingRequest ==
    [][/\ Cardinality(s_requests') <= 1
       /\ (performUpkeep /\ s_lotteryState = CALCULATING)
              => /\ lastCall'.err = UpkeepNotNeeded
                 /\ UNCHANGED <<lotteryVars, coordinatorVars>>]_vars

C13_Witness ==
    /\ lastCall.op = "performUpkeep"
    /\ lastCall.err = UpkeepNotNeeded
    /\ lastCall.errArgs[3] = CALCULATING
    /\ blockTimestamp - s_lastTimestamp > i_interval
    /\ s_requests = {1}


(* C14: in every reachable state a request is pending exactly when the state is
   CALCULATING, and the pending request is the one the coordinator returned to
   the most recent successful performUpkeep. *)
C14_PendingIffCalculating ==
    /\ s_requests # {} <=> s_lotteryState = CALCULATING
    /\ s_requests # {} => s_requests = lastRequestId

C14_Witness ==
    /\ s_lotteryState = CALCULATING
    /\ s_requests = {2}
    /\ lastRequestId = {2}
    /\ fulfilled = {1}

(* C15: s_recentWinner and s_lastTimestamp change only in a fulfillRandomWords
   that settles: enterLottery, checkUpkeep, performUpkeep, a reverted delivery
   and the passage of time leave both unchanged, and s_recentWinner is
   address(0) until the first settlement. *)
C15_WinnerAndTimestampOnlyOnSettlement ==
    /\ s_recentWinner = ZeroAddress
    /\ [][/\ (s_recentWinner' # s_recentWinner \/ s_lastTimestamp' # s_lastTimestamp)
              => Succeeded("fulfillRandomWords")
          /\ ~Succeeded("fulfillRandomWords")
              => UNCHANGED <<s_recentWinner, s_lastTimestamp>>
          /\ fulfilled' = {} => s_recentWinner' = ZeroAddress]_vars

C15_Witness ==
    /\ lastCall.op = "fulfillRandomWords"
    /\ lastCall.err = TransferFailed
    /\ fulfilled = {1}
    /\ s_recentWinner = "a1"
    /\ s_players = <<"a2">>
    /\ s_lastTimestamp < blockTimestamp

(* C16: the state is OPEN at construction and changes only from OPEN to
   CALCULATING in a successful performUpkeep and from CALCULATING to OPEN in a
   successful delivery of the pending request; no enterLottery, checkUpkeep,
   reverted call or passage of time changes it. *)
C16_OnlyTwoTransitions ==
    /\ s_lotteryState = OPEN
    /\ [][/\ s_lotteryState' # s_lotteryState
              => \/ /\ s_lotteryState = OPEN
                    /\ s_lotteryState' = CALCULATING
                    /\ Succeeded("performUpkeep")
                 \/ /\ s_lotteryState = CALCULATING
                    /\ s_lotteryState' = OPEN
                    /\ Succeeded("fulfillRandomWords")
          /\ Succeeded("performUpkeep")
              => s_lotteryState = OPEN /\ s_lotteryState' = CALCULATING
          /\ Succeeded("fulfillRandomWords")
              => /\ s_lotteryState = CALCULATING
                 /\ s_lotteryState' = OPEN
                 /\ calledRequestId' = s_requests]_vars

C16_Witness ==
    /\ s_lotteryState = CALCULATING
    /\ lastCall.op = "none"
    /\ blockTimestamp - s_lastTimestamp > i_interval + 1
    /\ fulfilled = {1}


(* C17: every successful enterLottery emits exactly one LotteryEnter(sender),
   every successful performUpkeep exactly one RequestLotteryWinner carrying the
   identifier that becomes pending, every successful fulfillRandomWords exactly
   one WinnerPicked carrying the address that was paid, and no reverted call
   and no checkUpkeep emits anything. *)
C17_OneEventPerSuccess ==
    [][/\ \A sender \in Addresses, value \in Payments :
              (Succeeded("enterLottery") /\ enterLottery(sender, value))
                  => lastCall'.events = <<Event("LotteryEnter", sender, 0)>>
       /\ Succeeded("performUpkeep")
              => /\ Len(lastCall'.events) = 1
                 /\ lastCall'.events[1].name = "RequestLotteryWinner"
                 /\ s_requests' = {lastCall'.events[1].id}
       /\ Succeeded("fulfillRandomWords")
              => /\ Len(lastCall'.transfers) = 1
                 /\ lastCall'.events
                        = <<Event("WinnerPicked", lastCall'.transfers[1].to, 0)>>
       /\ (lastCall'.err # NoError \/ lastCall'.op \in {"checkUpkeep", "none"})
              => lastCall'.events = NoEvents]_vars

C17_Witness ==
    /\ lastCall.op = "fulfillRandomWords"
    /\ lastCall.events = <<Event("WinnerPicked", "a2", 0)>>
    /\ lastCall.transfers = <<[to |-> "a2", value |-> 2]>>
    /\ fulfilled = {1, 2}

\* the events since the last WinnerPicked: LotteryEnter events, at least one,
\* then at most one RequestLotteryWinner, which is the last
WellOrdered(log) ==
    \A i \in DOMAIN log :
        /\ log[i].name \in {"LotteryEnter", "RequestLotteryWinner"}
        /\ log[i].name = "RequestLotteryWinner" => i = Len(log) /\ i > 1

(* C18: in the event stream RequestLotteryWinner and WinnerPicked alternate,
   starting with RequestLotteryWinner; each WinnerPicked follows the
   RequestLotteryWinner of the request it settles; at least one LotteryEnter
   lies between the previous WinnerPicked and a RequestLotteryWinner, and none
   between a RequestLotteryWinner and the WinnerPicked that follows.  Stated on
   the events since the last WinnerPicked, which a WinnerPicked closes. *)
C18_EventOrder ==
    /\ WellOrdered(eventLog)
    /\ [][/\ WellOrdered(eventLog')
          /\ Emitted("WinnerPicked")
                 => /\ eventLog # <<>>
                    /\ eventLog[Len(eventLog)].name = "RequestLotteryWinner"
                    /\ calledRequestId' = {eventLog[Len(eventLog)].id}
                    /\ eventLog' = <<>>
          /\ ~Emitted("WinnerPicked")
                 => eventLog' = eventLog \o lastCall'.events]_vars

C18_Witness ==
    /\ Len(eventLog) = 3
    /\ eventLog[1].name = "LotteryEnter"
    /\ eventLog[2].name = "LotteryEnter"
    /\ eventLog[3] = Event("RequestLotteryWinner", ZeroAddress, 2)
    /\ fulfilled = {1}

(* C19: performUpkeep evaluates the gate itself: when the two upkeep triggers
   have each observed checkUpkeep = true in the same round and both have called
   performUpkeep, in either order, one call succeeded and the other reverted
   with Lottery__UpkeepNotNeeded, and one request was issued (the triggers
   being the only callers of performUpkeep). *)
C19_OneOfTwoTriggersSucceeds ==
    /\ \A k \in Keepers : upkeepResult[k] \in {NotCalled, NoError, UpkeepNotNeeded}
    /\ Cardinality({k \in Keepers : upkeepResult[k] = NoError}) <= 1
    /\ (\A k \in Keepers : upkeepResult[k] # NotCalled)
           => /\ Cardinality({k \in Keepers : upkeepResult[k] = NoError}) = 1
              /\ Cardinality({k \in Keepers : upkeepResult[k] = UpkeepNotNeeded}) = 1
              /\ Cardinality(s_requests) = 1
              /\ s_requests = lastRequestId

C19_Witness ==
    /\ upkeepResult["k1"] = UpkeepNotNeeded
    /\ upkeepResult["k2"] = NoError
    /\ lastCall.op = "performUpkeep"
    /\ lastCall.err = UpkeepNotNeeded
    /\ s_requests = {1}
    /\ Len(s_players) = 2

(* C20: if the coordinator eventually delivers each accepted request with a
   transfer that succeeds, every state with CALCULATING is followed by a state
   with OPEN, no players and an empty balance; and no CALCULATING state is a dead
   end: in each of them that delivery is possible. *)
C20_CalculatingLeadsToOpen ==
    /\ (s_lotteryState = CALCULATING)
           ~> (s_lotteryState = OPEN /\ s_players = <<>> /\ balance = 0)
    /\ [](s_lotteryState = CALCULATING => ENABLED Settle)

C20_Witness ==
    /\ s_lotteryState = OPEN
    /\ s_players = <<>>
    /\ balance = 0
    /\ fulfilled = {1, 2}
    /\ lastCall.op = "fulfillRandomWords"
    /\ lastCall.err = NoError

\* block.timestamp - s_lastTimestamp, as checkUpkeep computes it
elapsed == blockTimestamp - s_lastTimestamp

(* C21: the interval is strict: while block.timestamp - s_lastTimestamp is
   i_interval or less, checkUpkeep is false and performUpkeep reverts with
   Lottery__UpkeepNotNeeded and changes nothing; a performUpkeep that succeeds
   runs strictly more than i_interval after s_lastTimestamp, the time of the
   preceding settlement (of the construction, for the first draw). *)
C21_IntervalIsStrict ==
    /\ [](elapsed <= i_interval => ~checkUpkeep)
    /\ [][/\ (lastCall'.op = "checkUpkeep" /\ elapsed <= i_interval)
                 => lastCall'.ret = FALSE
          /\ (lastCall'.op = "performUpkeep" /\ elapsed <= i_interval)
                 => /\ lastCall'.err = UpkeepNotNeeded
                    /\ UNCHANGED <<lotteryVars, coordinatorVars>>
          /\ Succeeded("performUpkeep")
                 => /\ elapsed > i_interval
                    /\ s_lastTimestamp' = s_lastTimestamp]_vars

C21_Witness ==
    /\ lastCall.op = "performUpkeep"
    /\ lastCall.err = UpkeepNotNeeded
    /\ i_interval = 1
    /\ elapsed = i_interval
    /\ isOpen /\ hasPlayers /\ hasBalance


(* C22: while the state is CALCULATING the players and the balance are frozen:
   they are those present when performUpkeep succeeded, and no enterLottery,
   performUpkeep, checkUpkeep or reverted fulfillRandomWords changes them; the
   settlement picks the winner among those players and pays that balance; and
   the balance goes down only in a settlement, to 0, by the amount paid. *)
C22_FrozenWhileCalculating ==
    /\ [](s_lotteryState = CALCULATING
              => s_players = playersAtDraw /\ balance = paidIn)
    /\ [][/\ (s_lotteryState = CALCULATING /\ ~Succeeded("fulfillRandomWords"))
                 => UNCHANGED <<s_players, balance, s_lotteryState>>
          /\ Succeeded("fulfillRandomWords")
                 => /\ s_lotteryState = CALCULATING
                    /\ \E i \in DOMAIN playersAtDraw :
                           lastCall'.transfers[1].to = playersAtDraw[i]
                    /\ lastCall'.transfers[1].value = paidIn
                    /\ balance' = 0
          /\ balance' < balance => Succeeded("fulfillRandomWords")]_vars

C22_Witness ==
    /\ lastCall.op = "fulfillRandomWords"
    /\ lastCall.err = TransferFailed
    /\ s_lotteryState = CALCULATING
    /\ playersAtDraw = <<"a1", "a2">>
    /\ s_players = playersAtDraw
    /\ balance = 2
    /\ blockTimestamp > s_lastTimestamp + i_interval + 1


(* C23: the balance is at least the number of players times the entrance fee.
   With a positive fee, players present implies a positive balance, so hasBalance
   adds nothing to checkUpkeep; with a fee of 0 the players can be present with a
   balance of 0 (the witness), and checkUpkeep is false in every such state. *)
C23_BalanceCoversFees ==
    /\ balance >= Len(s_players) * i_entranceFee
    /\ (i_entranceFee > 0 /\ hasPlayers) => hasBalance
    /\ i_entranceFee > 0 => (checkUpkeep <=> (isOpen /\ timePassed /\ hasPlayers))
    /\ (hasPlayers /\ ~hasBalance) => (i_entranceFee = 0 /\ ~checkUpkeep)

C23_Witness ==
    /\ i_entranceFee = 0
    /\ Len(s_players) = 2
    /\ balance = 0
    /\ isOpen /\ timePassed
    /\ lastCall.op = "checkUpkeep"
    /\ lastCall.ret = FALSE

(* C24: the clock only moving forward, s_lastTimestamp is never ahead of
   block.timestamp and never decreases, so block.timestamp - s_lastTimestamp
   does not underflow: neither checkUpkeep nor performUpkeep panics. *)
C24_NoTimestampUnderflow ==
    /\ [](s_lastTimestamp <= blockTimestamp /\ ~checkUpkeepPanics)
    /\ [][/\ blockTimestamp' >= blockTimestamp
          /\ s_lastTimestamp' >= s_lastTimestamp
          /\ lastCall'.op \in {"checkUpkeep", "performUpkeep"}
                 => lastCall'.err # Panic]_vars

C24_Witness ==
    /\ s_lastTimestamp = blockTimestamp
    /\ s_lastTimestamp > 0
    /\ i_interval = 1
    /\ lastCall.op = "checkUpkeep"
    /\ lastCall.err = NoError


====
